---- MODULE Spec2Model ----
(***************************************************************************)
(* Audio-preview playback of the playlist application: the AudioProvider   *)
(* (register / unregister over the single currentlyPlaying slot) and the  *)
(* Track rows that use it (togglePlay, handleAudioEnd, handleAudioError,   *)
(* the useEffect cleanup), rendered by the two TrackLists (search results  *)
(* and playlist) under App's AudioProvider.                                *)
(*                                                                         *)
(* Execution is single-threaded and event-driven: every action below is    *)
(* one event handler (or one React commit) run to completion.              *)
(***************************************************************************)
EXTENDS Integers, FiniteSets, Sequences, TLC

\* ---------------------------------------------------------------- bounds
\* Number of catalog entries (track ids 1..NumTracks).
NumTracks == 3

\* Number of redirects from Spotify (each brings a new token).
MaxTokens == 2

\* Date.now() runs from 0 to MaxTime.
MaxTime == 3

\* The expires_in values of a redirect are 1..MaxExpiresIn (units of 60 s).
MaxExpiresIn == 2

\* The count of requests of one fetchFromSpotify call stops at MaxSends.
MaxSends == 3

\* ------------------------------------------------------------------ data
NoRow == <<"none", 0>>

\* currentlyPlaying.current === null: the empty slot.
Null == [element |-> NoRow, id |-> 0]

\* A null preview_url.
NullUrl == "null"

\* A property the object does not have.
Undefined == "undefined"

TrackIds == 1..NumTracks

\* The two TrackList instances of App: SearchResults and Playlist.
Collections == {"results", "playlist"}

\* A Track row instance: TrackList renders one <Track key={track.id}> per
\* record of its collection, so an instance is (collection, track id).  The
\* row's <audio> element (audioRef.current) is identified with the row.
Rows == Collections \X TrackIds

RowId(r) == r[2]

\* search(): previewUrl: track.preview_url.  Catalog entries with an even id
\* have no preview (preview_url null), e.g. {1: "a.mp3", 2: null, 3: "c.mp3"}.
previewUrl(id) == IF id % 2 = 0 THEN NullUrl ELSE "mp3"

\* JavaScript truthiness of a previewUrl value (null, undefined and "" are falsy).
Truthy(v) == v \notin {NullUrl, Undefined, ""}

\* The preview button rendered for every record, previewUrl or not.
ButtonRendered_always(id) == TRUE

\* {previewUrl && (<button ... onClick={togglePlay}>)}
ButtonRendered(id) == Truthy(previewUrl(id))

VARIABLES
    mounted,           \* [Rows -> BOOLEAN]: the row is rendered
    toggleShown,       \* [Rows -> BOOLEAN]: the row's render produced the preview button
    isPlaying,         \* [Rows -> BOOLEAN]: the row's useState flag
    audio,             \* [Rows -> {"paused","playing"}]: state of the row's <audio> element
    currentlyPlaying,  \* currentlyPlaying.current: Null or [element, id]
    stopped,           \* elements on which register() called pause() in the last step
    ev,                \* the last event handled: [op, row, prev, was]: prev is the slot
                       \* before it, was the state of the row's element before it
    calls,             \* the calls the last handler made, in order: <<function, row>>
    coord,             \* the coordinator driven directly: see CoordSpec
    auth,              \* SpotifyAuth, sessionStorage, window.location: see ApiSpec
    now,               \* Date.now(), in units of 60000 ms
    req,               \* the fetchFromSpotify call in flight
    hist,              \* what the requests and the token extractions did so far
    save               \* the savePlaylist call: [st, log], log the requests it sent

playVars == <<mounted, toggleShown, isPlaying, audio, currentlyPlaying, stopped, ev, calls>>

apiVars == <<auth, now, req, hist, save>>

vars == <<playVars, coord, apiVars>>

Registration == {Null} \cup [element : Rows, id : TrackIds]

TypeOK ==
    /\ mounted \in [Rows -> BOOLEAN]
    /\ toggleShown \in [Rows -> BOOLEAN]
    /\ isPlaying \in [Rows -> BOOLEAN]
    /\ audio \in [Rows -> {"paused", "playing"}]
    /\ currentlyPlaying \in Registration
    /\ stopped \subseteq Rows

\* ----------------------------------------------------------- AudioProvider

\* register without the pause of the element registered before.
register_noPause(audioElement, id, cur, aud) ==
    [cur     |-> [element |-> audioElement, id |-> id],
     audio   |-> aud,
     stopped |-> {}]

\* register without the comparison of identifiers: whatever is registered is paused.
register_alwaysPause(audioElement, id, cur, aud) ==
    [cur     |-> [element |-> audioElement, id |-> id],
     audio   |-> IF cur # Null THEN [aud EXCEPT ![cur.element] = "paused"] ELSE aud,
     stopped |-> IF cur # Null THEN {cur.element} ELSE {}]

\* register that returns early when the id is the registered one, keeping the
\* element registered before.
register_keepSame(audioElement, id, cur, aud) ==
    LET other == cur # Null /\ cur.id # id
    IN  [cur     |-> IF cur # Null /\ cur.id = id THEN cur
                     ELSE [element |-> audioElement, id |-> id],
         audio   |-> IF other THEN [aud EXCEPT ![cur.element] = "paused"] ELSE aud,
         stopped |-> IF other THEN {cur.element} ELSE {}]

\* register(audioElement, id): the slot, the audio elements and the set of
\* elements paused by the call, after the call.
register(audioElement, id, cur, aud) ==
    LET other == cur # Null /\ cur.id # id
    IN  [cur     |-> [element |-> audioElement, id |-> id],
         audio   |-> IF other THEN [aud EXCEPT ![cur.element] = "paused"] ELSE aud,
         stopped |-> IF other THEN {cur.element} ELSE {}]

\* unregister without the comparison of identifiers: the slot is always emptied.
unregister_unguarded(id, cur) == Null

\* unregister(id): the slot after the call.
unregister(id, cur) ==
    IF cur # Null /\ cur.id = id THEN Null ELSE cur

\* ------------------------------------------------------------------ Track

\* A cleanup that pauses the element and forgets to unregister.
cleanup_noUnregister(r, st) ==
    [cur   |-> st.cur,
     audio |-> [st.audio EXCEPT ![r] = "paused"],
     calls |-> Append(st.calls, <<"pause", r>>)]

\* The useEffect cleanup of row r: pause its element, unregister its id.
\* st is [cur, audio, calls].
cleanup(r, st) ==
    [cur   |-> unregister(RowId(r), st.cur),
     audio |-> [st.audio EXCEPT ![r] = "paused"],
     calls |-> st.calls \o << <<"pause", r>>, <<"unregister", r>> >>]

\* The cleanups of a set of rows, run one after the other in one commit.
RECURSIVE cleanupAll(_, _)
cleanupAll(S, st) ==
    IF S = {} THEN st
    ELSE LET r == CHOOSE x \in S : TRUE
         IN  cleanupAll(S \ {r}, cleanup(r, st))

MountedRows == {r \in Rows : mounted[r]}

\* --------------------------------------------------- SpotifyAuth: the data

\* JavaScript values with their type: null, a number, a string of digits.
NullVal == [t |-> "null", v |-> 0]
Num(n) == [t |-> "num", v |-> n]
Str(n) == [t |-> "str", v |-> n]

\* Number(x): null is 0, a string of digits its number.
NumberOf(x) == IF x.t = "null" THEN 0 ELSE x.v

\* String(x) of a number.
StringOf(x) == IF x.t = "num" THEN Str(x.v) ELSE x

\* accessToken: null, or the token of the n-th redirect from Spotify.
NoToken == 0
Tokens == 1..MaxTokens

\* this.accessToken, this.expiresIn, this.expirationTime after construction
\* and after clearTokenData.
NoMem == [accessToken |-> NoToken, expiresIn |-> NullVal, expirationTime |-> NullVal]

\* sessionStorage without the three spotify_ items.
NoStore == [token |-> NoToken, expiresIn |-> NullVal, expirationTime |-> NullVal]

\* window.location.href without access_token= and expires_in=.
NoParams == [token |-> NoToken, expiresIn |-> 0]

\* No fetchFromSpotify call was made yet.
NoReq == [st |-> "idle", token |-> NoToken, n |-> 0, kind |-> "none", error |-> "none"]

\* Nothing requested or extracted yet.
NoHist == [rejected |-> {}, extracted |-> [k \in Tokens |-> 0], issued |-> 0,
           from |-> "none", ret |-> NoToken, results |-> {}]

\* No savePlaylist call was made (or the document that made it is gone).
SaveIdle == [st |-> "idle", log |-> <<>>]

\* The API side at rest: a fresh document, an empty sessionStorage that works.
ApiIdle ==
    /\ auth = [mem |-> NoMem, store |-> NoStore, storageOk |-> TRUE,
               url |-> NoParams, page |-> "app"]
    /\ now = 0
    /\ req = NoReq
    /\ hist = NoHist
    /\ save = SaveIdle

\* The coordinator's direct driver at rest (no handle detached, nothing raised).
CoordIdle == [detached |-> {}, raised |-> FALSE, id |-> 0]

PlayIdle ==
    /\ mounted = [r \in Rows |-> FALSE]
    /\ toggleShown = [r \in Rows |-> FALSE]
    /\ isPlaying = [r \in Rows |-> FALSE]
    /\ audio = [r \in Rows |-> "paused"]
    /\ currentlyPlaying = Null
    /\ stopped = {}
    /\ ev = [op |-> "init", row |-> NoRow, prev |-> Null, was |-> "paused"]
    /\ calls = <<>>
    /\ coord = CoordIdle

Init ==
    /\ PlayIdle
    /\ ApiIdle

\* The pause() calls register made, as entries of the call log.
PauseCalls(S) == IF S = {} THEN <<>> ELSE << <<"pause", CHOOSE x \in S : TRUE>> >>

\* togglePlay: the click handler of the row's preview button.
togglePlay(r) ==
    /\ mounted[r]
    /\ toggleShown[r]
    /\ IF ~Truthy(previewUrl(RowId(r)))
       THEN UNCHANGED vars
       ELSE IF isPlaying[r]
            THEN /\ audio' = [audio EXCEPT ![r] = "paused"]
                 /\ currentlyPlaying' = unregister(RowId(r), currentlyPlaying)
                 /\ stopped' = {}
                 /\ isPlaying' = [isPlaying EXCEPT ![r] = FALSE]
                 /\ ev' = [op |-> "pause", row |-> r, prev |-> currentlyPlaying, was |-> audio[r]]
                 /\ calls' = << <<"pause", r>>, <<"unregister", r>> >>
                 /\ UNCHANGED <<mounted, toggleShown, coord, apiVars>>
            ELSE LET res == register(r, RowId(r), currentlyPlaying,
                                     [audio EXCEPT ![r] = "playing"])
                 IN  /\ audio' = res.audio
                     /\ currentlyPlaying' = res.cur
                     /\ stopped' = res.stopped
                     /\ isPlaying' = [isPlaying EXCEPT ![r] = TRUE]
                     /\ ev' = [op |-> "play", row |-> r, prev |-> currentlyPlaying, was |-> audio[r]]
                     /\ calls' = << <<"play", r>>, <<"register", r>> >>
                                  \o PauseCalls(res.stopped)
                     /\ UNCHANGED <<mounted, toggleShown, coord, apiVars>>

\* handleAudioEnd: the element's onEnded (it played to its end and stopped).
handleAudioEnd(r) ==
    /\ mounted[r]
    /\ audio[r] = "playing"
    /\ audio' = [audio EXCEPT ![r] = "paused"]
    /\ isPlaying' = [isPlaying EXCEPT ![r] = FALSE]
    /\ stopped' = {}
    /\ ev' = [op |-> "ended", row |-> r, prev |-> currentlyPlaying, was |-> audio[r]]
    /\ calls' = <<>>
    /\ UNCHANGED <<mounted, toggleShown, currentlyPlaying, coord, apiVars>>

\* handleAudioError: the element's onError (its resource failed; it does not play).
handleAudioError(r) ==
    /\ mounted[r]
    /\ Truthy(previewUrl(RowId(r)))
    /\ audio' = [audio EXCEPT ![r] = "paused"]
    /\ isPlaying' = [isPlaying EXCEPT ![r] = FALSE]
    /\ stopped' = {}
    /\ ev' = [op |-> "error", row |-> r, prev |-> currentlyPlaying, was |-> audio[r]]
    /\ calls' = <<>>
    /\ UNCHANGED <<mounted, toggleShown, currentlyPlaying, coord, apiVars>>

\* One React commit of App: the rows of `gone` unmount, the rows of `born`
\* mount.  App re-rendered, so AudioProvider re-rendered and made a new
\* unregister: the effect of every surviving row ([track.id, unregister])
\* re-runs, cleanup first.  Every row mounted before the commit is cleaned up.
Commit(gone, born, op, row) ==
    LET st == cleanupAll(MountedRows,
                         [cur |-> currentlyPlaying, audio |-> audio, calls |-> <<>>])
    IN  /\ mounted' = [r \in Rows |-> (mounted[r] /\ r \notin gone) \/ r \in born]
        /\ toggleShown' = [r \in Rows |->
                             IF r \in born THEN ButtonRendered(RowId(r))
                             ELSE toggleShown[r] /\ r \notin gone]
        /\ isPlaying' = [r \in Rows |-> isPlaying[r] /\ r \notin gone /\ r \notin born]
        /\ audio' = st.audio
        /\ currentlyPlaying' = st.cur
        /\ stopped' = {}
        /\ calls' = st.calls
        /\ UNCHANGED <<coord, apiVars>>
        /\ ev' = [op |-> op, row |-> row, prev |-> currentlyPlaying,
                  was |-> IF row = NoRow THEN "paused" ELSE audio[row]]

\* A track record enters a collection (search result shown, addTrack).
AddTrack(r) ==
    /\ ~mounted[r]
    /\ Commit({}, {r}, "add", r)

\* A track record leaves a collection (removeTrack, results replaced).
RemoveTrack(r) ==
    /\ mounted[r]
    /\ Commit({r}, {}, "remove", r)

\* App re-renders with the same rows (playlist name typed, message shown).
Rerender ==
    /\ MountedRows # {}
    /\ Commit({}, {}, "rerender", NoRow)

\* The AudioProvider subtree unmounts (isAuthenticated becomes false).
UnmountAll ==
    /\ MountedRows # {}
    /\ Commit(MountedRows, {}, "unmountAll", NoRow)

Next ==
    \/ \E r \in Rows : togglePlay(r)
    \/ \E r \in Rows : handleAudioEnd(r)
    \/ \E r \in Rows : handleAudioError(r)
    \/ \E r \in Rows : AddTrack(r)
    \/ \E r \in Rows : RemoveTrack(r)
    \/ Rerender
    \/ UnmountAll

Spec == Init /\ [][Next]_vars

\* ------------------------------------------------ the coordinator, directly

\* The handles the coordinator is driven with directly.
Handles == {r \in Rows : r[1] = "results"}

\* register(audioElement, id) when pause() of a detached handle throws: the
\* exception leaves register before the assignment of the slot (there is no
\* try/catch), and reaches the caller.
registerRaising(audioElement, id, cur, aud, detached) ==
    IF cur # Null /\ cur.id # id /\ cur.element \in detached
    THEN [cur |-> cur, audio |-> aud, stopped |-> {}, raised |-> TRUE]
    ELSE LET res == register(audioElement, id, cur, aud)
         IN  [cur |-> res.cur, audio |-> res.audio, stopped |-> res.stopped,
              raised |-> FALSE]

\* A caller starts its handle and calls register(handle, id), as togglePlay does.
CoordAcquire(h, id) ==
    LET res == registerRaising(h, id, currentlyPlaying,
                               [audio EXCEPT ![h] = "playing"], coord.detached)
    IN  /\ h \notin coord.detached
        /\ audio' = res.audio
        /\ currentlyPlaying' = res.cur
        /\ stopped' = res.stopped
        /\ coord' = [coord EXCEPT !.raised = res.raised, !.id = id]
        /\ ev' = [op |-> "acquire", row |-> h, prev |-> currentlyPlaying, was |-> audio[h]]
        /\ calls' = << <<"play", h>>, <<"register", h>> >> \o PauseCalls(res.stopped)
        /\ UNCHANGED <<mounted, toggleShown, isPlaying, apiVars>>

\* A caller calls unregister(id).
CoordRelease(id) ==
    /\ currentlyPlaying' = unregister(id, currentlyPlaying)
    /\ stopped' = {}
    /\ coord' = [coord EXCEPT !.raised = FALSE, !.id = id]
    /\ ev' = [op |-> "release", row |-> NoRow, prev |-> currentlyPlaying, was |-> "paused"]
    /\ calls' = << <<"unregister", NoRow>> >>
    /\ UNCHANGED <<mounted, toggleShown, isPlaying, audio, apiVars>>

\* A handle is detached: it no longer plays and its pause() throws from now on.
CoordDetach(h) ==
    /\ h \notin coord.detached
    /\ audio' = [audio EXCEPT ![h] = "paused"]
    /\ coord' = [coord EXCEPT !.detached = @ \cup {h}, !.raised = FALSE]
    /\ stopped' = {}
    /\ ev' = [op |-> "detach", row |-> h, prev |-> currentlyPlaying, was |-> audio[h]]
    /\ calls' = <<>>
    /\ UNCHANGED <<mounted, toggleShown, isPlaying, currentlyPlaying, apiVars>>

CoordNext ==
    \/ \E h \in Handles : \E id \in TrackIds : CoordAcquire(h, id)
    \/ \E id \in TrackIds : CoordRelease(id)
    \/ \E h \in Handles : CoordDetach(h)

CoordSpec == Init /\ [][CoordNext]_vars

\* ------------------------------------------------------------- SpotifyAuth

\* The safety margin of getAccessToken: 60000 ms, one unit of time.
Margin == 1

\* saveTokenToStorage: the three setItem calls (all throw when storage fails).
saveTokenToStorage(a) ==
    IF a.storageOk
    THEN [a EXCEPT !.store = [token          |-> a.mem.accessToken,
                              expiresIn      |-> StringOf(a.mem.expiresIn),
                              expirationTime |-> StringOf(a.mem.expirationTime)]]
    ELSE a

\* clearTokenData that leaves the items of sessionStorage.
clearTokenData_memoryOnly(a) == [a EXCEPT !.mem = NoMem]

\* clearTokenData that leaves the fields of the object.
clearTokenData_storageOnly(a) ==
    [a EXCEPT !.store = IF a.storageOk THEN NoStore ELSE @]

\* clearTokenData: the fields, then the three removeItem calls.
clearTokenData(a) ==
    [a EXCEPT !.mem = NoMem, !.store = IF a.storageOk THEN NoStore ELSE @]

\* loadTokenFromStorage at time t: [a, ok].
loadTokenFromStorage(a, t) ==
    IF ~a.storageOk THEN [a |-> a, ok |-> FALSE]
    ELSE IF a.store.token # NoToken /\ a.store.expirationTime.t # "null"
    THEN LET a1 == [a EXCEPT !.mem = [accessToken    |-> a.store.token,
                                      expiresIn      |-> a.store.expiresIn,
                                      expirationTime |->
                                          Num(NumberOf(a.store.expirationTime))]]
         IN  IF NumberOf(a1.mem.expirationTime) > t
             THEN [a |-> a1, ok |-> TRUE]
             ELSE [a |-> clearTokenData(a1), ok |-> FALSE]
    ELSE [a |-> a, ok |-> FALSE]

\* redirectToSpotifyAuth: window.location = authorizeUrl.
redirectToSpotifyAuth(a) == [a EXCEPT !.page = "away"]

\* The URL after the extraction, had pushState been forgotten.
cleanUrl_forgotten(a) == a

\* window.history.pushState('Access Token', null, '/').
cleanUrl(a) == [a EXCEPT !.url = NoParams]

\* getAccessToken at time t: [a, ret, from].
getAccessToken(a, t) ==
    IF a.mem.accessToken # NoToken /\ NumberOf(a.mem.expirationTime) > t
    THEN [a |-> a, ret |-> a.mem.accessToken, from |-> "memory"]
    ELSE IF a.url # NoParams
    THEN LET a1 == [a EXCEPT !.mem =
                        [accessToken    |-> a.url.token,
                         expiresIn      |-> Num(a.url.expiresIn),
                         expirationTime |-> Num(t + a.url.expiresIn - Margin)]]
         IN  [a |-> cleanUrl(saveTokenToStorage(a1)), ret |-> a.url.token, from |-> "url"]
    ELSE LET l == loadTokenFromStorage(a, t)
         IN  IF l.ok
             THEN [a |-> l.a, ret |-> l.a.mem.accessToken, from |-> "storage"]
             ELSE [a |-> redirectToSpotifyAuth(l.a), ret |-> NoToken, from |-> "redirect"]

\* isAuthenticated at time t.
isAuthenticated(a, t) ==
    a.mem.accessToken # NoToken /\ NumberOf(a.mem.expirationTime) > t

\* The track record search() makes of an item of the response: id, name,
\* artist, album, uri, duration; it has no previewUrl property.
searchRecord(item) == [id |-> item.id, previewUrl |-> Undefined]

\* An item of the catalog, as the search endpoint returns it.
CatalogItem(id) == [id |-> id, preview_url |-> previewUrl(id)]

\* fetchFromSpotify without the if (!token) return: the request is sent with
\* whatever getAccessToken returned.
fetchStart_sendWithoutToken(a, t, kind, n) ==
    LET g == getAccessToken(a, t)
    IN  [a |-> g.a, g |-> g,
         req |-> [st |-> "sent", token |-> g.ret,
                  n |-> IF n < MaxSends THEN n + 1 ELSE n, kind |-> kind,
                  error |-> "none"]]

\* fetchFromSpotify up to its await: getAccessToken, then either the rejection
\* 'No access token available' or the request with the token.  n counts the
\* requests the call has sent.  [a, g, req].
fetchStart(a, t, kind, n) ==
    LET g == getAccessToken(a, t)
    IN  [a |-> g.a, g |-> g,
         req |-> IF g.ret = NoToken
                 THEN [st |-> "rejected", token |-> NoToken, n |-> n, kind |-> kind,
                       error |-> "No access token available"]
                 ELSE [st |-> "sent", token |-> g.ret,
                       n |-> IF n < MaxSends THEN n + 1 ELSE n, kind |-> kind,
                       error |-> "none"]]

\* The history after a getAccessToken call.
Noted(h, g) ==
    [h EXCEPT !.from = g.from, !.ret = g.ret,
              !.extracted = IF g.from = "url"
                            THEN [@ EXCEPT ![g.ret] = IF @ < 2 THEN @ + 1 ELSE @]
                            ELSE @]

\* getAccessToken called by the application (CallbackHandler, App).  A
\* redirect unloads the document, and a call in flight with it.
GetAccessToken ==
    /\ auth.page = "app"
    /\ LET g == getAccessToken(auth, now)
       IN  /\ auth' = g.a
           /\ hist' = Noted(hist, g)
           /\ req' = IF g.from = "redirect" THEN NoReq ELSE req
           /\ save' = IF g.from = "redirect" THEN SaveIdle ELSE save
    /\ UNCHANGED <<now, playVars, coord>>

\* fetchFromSpotify(endpoint) is called (search: kind "search").
FetchFromSpotify(kind) ==
    /\ auth.page = "app"
    /\ req.st # "sent"
    /\ LET f == fetchStart(auth, now, kind, 0)
       IN  /\ auth' = f.a
           /\ req' = f.req
           /\ hist' = Noted(hist, f.g)
    /\ UNCHANGED <<now, save, playVars, coord>>

Statuses == {200, 204, 401, 500}

\* The request in flight is answered (status 0: fetch itself failed).  A
\* search answered with 200 carries the first k items of the catalog.
Respond(status, k) ==
    /\ auth.page = "app"
    /\ req.st = "sent"
    /\ k = 0 \/ (status = 200 /\ req.kind = "search")
    /\ IF status = 401
       THEN LET f == fetchStart(clearTokenData(auth), now, req.kind, req.n)
            IN  /\ auth' = f.a
                /\ req' = f.req
                /\ hist' = [Noted(hist, f.g) EXCEPT !.rejected = @ \cup {req.token}]
       ELSE /\ auth' = auth
            /\ req' = [req EXCEPT
                         !.st = IF status \in {200, 204} THEN "resolved" ELSE "rejected",
                         !.error = IF status \in {200, 204} THEN "none"
                                   ELSE IF status = 0 THEN "fetch failed"
                                   ELSE "Spotify API error"]
            /\ hist' = IF status = 200 /\ req.kind = "search"
                       THEN [hist EXCEPT !.results =
                                {searchRecord(CatalogItem(i)) : i \in 1..k}]
                       ELSE hist
    /\ UNCHANGED <<now, save, playVars, coord>>

Responding == \E status \in Statuses \cup {0} : \E k \in 0..NumTracks :
                  Respond(status, k)

\* Time passes.
Tick ==
    /\ now < MaxTime
    /\ now' = now + 1
    /\ UNCHANGED <<auth, req, hist, save, playVars, coord>>

\* The user authorizes and Spotify redirects to the callback URL: a new
\* document, with a new token and its expires_in in the URL.
Arrive(e) ==
    /\ auth.page = "away"
    /\ hist.issued < MaxTokens
    /\ auth' = [auth EXCEPT !.page = "app", !.mem = NoMem,
                            !.url = [token |-> hist.issued + 1, expiresIn |-> e]]
    /\ req' = NoReq
    /\ save' = SaveIdle
    /\ hist' = [hist EXCEPT !.issued = @ + 1, !.from = "none", !.ret = NoToken]
    /\ UNCHANGED <<now, playVars, coord>>

\* The page is reloaded: a new document at the same URL, sessionStorage kept.
Reload ==
    /\ auth.page = "app"
    /\ auth' = [auth EXCEPT !.mem = NoMem]
    /\ req' = NoReq
    /\ save' = SaveIdle
    /\ hist' = [hist EXCEPT !.from = "none", !.ret = NoToken]
    /\ UNCHANGED <<now, playVars, coord>>

\* clearTokenData called by the application.
ClearTokenData ==
    /\ auth.page = "app"
    /\ auth' = clearTokenData(auth)
    /\ UNCHANGED <<now, req, hist, save, playVars, coord>>

ApiInit ==
    /\ PlayIdle
    /\ \E ok \in BOOLEAN :
          auth = [mem |-> NoMem, store |-> NoStore, storageOk |-> ok,
                  url |-> NoParams, page |-> "app"]
    /\ now = 0
    /\ req = NoReq
    /\ hist = NoHist
    /\ save = SaveIdle

ApiNext ==
    \/ GetAccessToken
    \/ \E kind \in {"search", "other"} : FetchFromSpotify(kind)
    \/ Responding
    \/ Tick
    \/ \E e \in 1..MaxExpiresIn : Arrive(e)
    \/ Reload
    \/ ClearTokenData

ApiSpec == ApiInit /\ [][ApiNext]_vars

\* The server (or the network) answers every request.
ApiFairSpec == ApiSpec /\ WF_vars(Responding)

\* ------------------------------------------------------------ savePlaylist

\* The requests of savePlaylist: '/me', '/users/{id}/playlists',
\* '/playlists/{id}/tracks'.
SaveOrder == <<"me", "create", "add">>

\* What fetchFromSpotify gives for a status: the parsed body, null (204), or
\* a rejection.
ResultOf(status) ==
    IF status = 200 THEN "json" ELSE IF status = 204 THEN "null" ELSE "error"

\* A promise chain whose .then callbacks run after a rejection too.
thenNext_ignoreFailure(kind, result) ==
    IF kind = "me" THEN "create" ELSE IF kind = "create" THEN "add" ELSE "resolve"

\* The promise chain of savePlaylist after the call for kind gave result: the
\* next request, or the chain resolves or rejects.  A rejection skips the
\* .then callbacks; user.id and playlist.id throw a TypeError on null.
thenNext(kind, result) ==
    IF result = "error" THEN "reject"
    ELSE IF kind = "me" THEN (IF result = "null" THEN "reject" ELSE "create")
    ELSE IF kind = "create" THEN (IF result = "null" THEN "reject" ELSE "add")
    ELSE "resolve"

\* The log with the outcome of its last request.
Answered(log, result) == [log EXCEPT ![Len(log)].outcome = result]

\* savePlaylist(name, trackUris): nothing is sent for an empty name or an
\* empty list; otherwise fetchFromSpotify('/me') starts the chain.
SavePlaylist(empty) ==
    /\ auth.page = "app"
    /\ req.st # "sent"
    /\ IF empty
       THEN /\ save' = [st |-> "resolved", log |-> <<>>]
            /\ UNCHANGED <<auth, req, hist>>
       ELSE LET f == fetchStart(auth, now, "me", 0)
            IN  /\ auth' = f.a
                /\ req' = f.req
                /\ hist' = Noted(hist, f.g)
                /\ save' = IF f.req.st = "sent"
                           THEN [st |-> "pending",
                                 log |-> << [kind |-> "me", outcome |-> "pending"] >>]
                           ELSE [st |-> "rejected", log |-> <<>>]
    /\ UNCHANGED <<now, playVars, coord>>

\* The request of savePlaylist in flight is answered: fetchFromSpotify settles
\* (after its retry on 401) and the chain runs its next callback.
SaveRespond(status) ==
    /\ auth.page = "app"
    /\ req.st = "sent"
    /\ save.st = "pending"
    /\ LET retry == fetchStart(clearTokenData(auth), now, req.kind, req.n)
           result == ResultOf(status)
           a1 == IF status = 401 THEN retry.a ELSE auth
           h1 == IF status = 401
                 THEN [Noted(hist, retry.g) EXCEPT !.rejected = @ \cup {req.token}]
                 ELSE hist
           done == IF status = 401 THEN retry.req
                   ELSE [req EXCEPT
                           !.st = IF result = "error" THEN "rejected" ELSE "resolved",
                           !.error = IF result # "error" THEN "none"
                                     ELSE IF status = 0 THEN "fetch failed"
                                     ELSE "Spotify API error"]
           nxt == thenNext(req.kind, result)
       IN  IF status = 401 /\ retry.req.st = "sent"
           THEN /\ auth' = a1
                /\ req' = done
                /\ hist' = h1
                /\ save' = [save EXCEPT !.log =
                               Append(Answered(@, result),
                                      [kind |-> req.kind, outcome |-> "pending"])]
           ELSE IF nxt \in {"resolve", "reject"}
           THEN /\ auth' = a1
                /\ req' = done
                /\ hist' = h1
                /\ save' = [st |-> IF nxt = "resolve" THEN "resolved" ELSE "rejected",
                             log |-> Answered(save.log, result)]
           ELSE LET f == fetchStart(a1, now, nxt, 0)
                IN  /\ auth' = f.a
                    /\ req' = f.req
                    /\ hist' = Noted(h1, f.g)
                    /\ save' = IF f.req.st = "sent"
                               THEN [save EXCEPT !.log =
                                       Append(Answered(@, result),
                                              [kind |-> nxt, outcome |-> "pending"])]
                               ELSE [st |-> "rejected",
                                     log |-> Answered(save.log, result)]
    /\ UNCHANGED <<now, playVars, coord>>

SaveResponding == \E status \in Statuses \cup {0} : SaveRespond(status)

SaveNext ==
    \/ \E empty \in BOOLEAN : SavePlaylist(empty)
    \/ SaveResponding
    \/ GetAccessToken
    \/ Tick
    \/ \E e \in 1..MaxExpiresIn : Arrive(e)
    \/ Reload
    \/ ClearTokenData

SaveSpec == ApiInit /\ [][SaveNext]_vars

\* ----------------------------------------------------------------- claims

Playing == {r \in Rows : audio[r] = "playing"}
HasPreview(r) == Truthy(previewUrl(RowId(r)))
RowEntry(r) == [element |-> r, id |-> RowId(r)]

\* C1: in every reachable state at most one audio element is playing.
\* (Violated: a row whose track id is the registered id of another row starts
\* playing and register() pauses nothing.)
C1_AtMostOnePlaying == Cardinality(Playing) <= 1

\* C2: unregister(id), called by a pausing toggle, empties the slot when the
\* registered id equals id and otherwise leaves the slot as it was (another
\* track registered, or the slot empty); it pauses no element: only the
\* toggling row's own element changes.  A commit empties the slot exactly when
\* the registered id is the id of a row it cleans up.
C2_ReleaseGuarded ==
    [][/\ ev'.op = "pause" =>
            /\ currentlyPlaying' = IF currentlyPlaying.id = RowId(ev'.row)
                                   THEN Null ELSE currentlyPlaying
            /\ stopped' = {}
            /\ \A q \in Rows \ {ev'.row} : audio'[q] = audio[q]
       /\ ev'.op \in {"add", "remove", "rerender", "unmountAll"} =>
            currentlyPlaying' = IF \E q \in MountedRows : RowId(q) = currentlyPlaying.id
                                THEN Null ELSE currentlyPlaying
      ]_vars

\* C2 witness: a stale release: the row paused while another track held the
\* slot, and the slot is as it was.
C2_StaleReleaseSeen ==
    /\ ev.op = "pause"
    /\ ev.prev # Null
    /\ ev.prev.id # RowId(ev.row)
    /\ currentlyPlaying = ev.prev
    /\ audio[ev.prev.element] = "playing"

\* C3: destroying a row that does not hold the registration leaves the
\* registration untouched and the registered element playing.
\* (Violated: the cleanup unregisters by track id, and the commit that removes
\* the row re-runs the cleanup of every other row.)
C3_ForeignDestroyKeepsRegistration ==
    [][(/\ ev'.op = "remove"
        /\ currentlyPlaying # Null
        /\ currentlyPlaying.element # ev'.row
        /\ audio[currentlyPlaying.element] = "playing")
       => /\ currentlyPlaying' = currentlyPlaying
          /\ audio'[currentlyPlaying.element] = "playing"
      ]_vars

\* C4: when the element of the row that holds the registration ends, the slot
\* becomes empty and the row's flag false.
\* (Violated: handleAudioEnd only resets the flag.)
C4_EndReleases ==
    (ev.op = "ended" /\ ev.prev.element = ev.row)
        => (currentlyPlaying = Null /\ ~isPlaying[ev.row])

\* C5: when a row's register() pauses another row's element, that other row's
\* flag is false when the next event is handled.
\* (Violated: nothing resets the flag of the row paused by the coordinator.)
C5_ExternallyStoppedIsIdle ==
    ev.op = "play" => \A a \in stopped : ~isPlaying[a]

\* C6: destroying the row that holds the registration pauses its element and
\* empties the slot, and afterwards no element is playing; so does the
\* unmount of the whole provider subtree.
C6_DestroyRegisteredCleans ==
    /\ (ev.op = "remove" /\ ev.prev.element = ev.row)
          => (audio[ev.row] = "paused" /\ currentlyPlaying = Null /\ Playing = {})
    /\ (ev.op = "unmountAll" /\ ev.prev # Null)
          => (audio[ev.prev.element] = "paused" /\ currentlyPlaying = Null /\ Playing = {})

\* C6 witness: the row that held the registration was removed while playing.
C6_PlayingRowRemoved ==
    /\ ev.op = "remove"
    /\ ev.prev = RowEntry(ev.row)
    /\ ev.was = "playing"
    /\ ~mounted[ev.row]

\* C7: after register() for an id other than the registered one, the element
\* registered before has been paused and the slot holds the call just made.
C7_AcquireStopsPrevious ==
    (ev.op = "play" /\ ev.prev # Null /\ ev.prev.id # RowId(ev.row))
        => /\ ev.prev.element \in stopped
           /\ audio[ev.prev.element] = "paused"
           /\ currentlyPlaying = RowEntry(ev.row)
           /\ audio[ev.row] = "playing"

\* C7 witness: a second register() with another id, after a first one, paused
\* the first row's element.
C7_SecondAcquireSeen ==
    /\ ev.op = "play"
    /\ ev.prev # Null
    /\ ev.prev.id # RowId(ev.row)
    /\ isPlaying[ev.prev.element]
    /\ stopped = {ev.prev.element}

\* C8: register() for the id that is already registered pauses no element and
\* leaves that id registered.
C8_SelfAcquireNoStop ==
    [][(ev'.op = "play" /\ currentlyPlaying # Null
                        /\ currentlyPlaying.id = RowId(ev'.row))
       => /\ stopped' = {}
          /\ currentlyPlaying'.id = currentlyPlaying.id
          /\ \A q \in Rows \ {ev'.row} : audio'[q] = audio[q]
      ]_vars

\* C8 witness: register() was called for the registered id while the
\* registered element played, and that element still plays.
C8_SelfAcquireSeen ==
    /\ ev.op = "play"
    /\ ev.prev # Null
    /\ ev.prev.id = RowId(ev.row)
    /\ ev.prev.element # ev.row
    /\ audio[ev.prev.element] = "playing"
    /\ stopped = {}

\* C9: a row whose record has no preview URL never shows the preview button,
\* never toggles, never plays and never holds the slot.
C9_NoPreviewNoPlayback ==
    \A r \in Rows : ~HasPreview(r) =>
        /\ ~toggleShown[r]
        /\ ~isPlaying[r]
        /\ audio[r] = "paused"
        /\ currentlyPlaying.element # r
        /\ ~(ev.op \in {"play", "pause"} /\ ev.row = r)

\* C9 witness: a row without preview is rendered beside a row of its
\* collection that plays.
C9_NoPreviewRowBesidePlaying ==
    \E r \in Rows : \E q \in Rows :
        /\ mounted[r] /\ ~HasPreview(r)
        /\ q[1] = r[1] /\ audio[q] = "playing" /\ currentlyPlaying = RowEntry(q)

\* C10: when the element of a Playing row reports an error, the row's flag
\* becomes false and the row no longer holds the registration.
\* (Violated: handleAudioError only resets the flag.)
C10_ErrorReleases ==
    [][(ev'.op = "error" /\ isPlaying[ev'.row])
       => /\ ~isPlaying'[ev'.row]
          /\ audio'[ev'.row] = "paused"
          /\ currentlyPlaying'.element # ev'.row
      ]_vars

\* C11: register never raises to its caller: when the pause of the handle
\* registered before fails, the new (id, handle) pair is still installed.
\* (Violated: register has no try/catch; the exception of pause() leaves it
\* before the slot is assigned.)
C11_AcquireNeverRaises ==
    ev.op = "acquire" =>
        /\ ~coord.raised
        /\ currentlyPlaying = [element |-> ev.row, id |-> coord.id]

\* C12: the slot, when it is not empty, holds the element of a row that is
\* still rendered.
C12_SlotNeverDangling ==
    currentlyPlaying # Null => mounted[currentlyPlaying.element]

\* C12 witness: the rows were destroyed while one of them held the slot and
\* played, and the slot is empty.
C12_RegisteredRowUnmounted ==
    /\ ev.op = "unmountAll"
    /\ ev.prev # Null
    /\ ~mounted[ev.prev.element]
    /\ isPlaying = [r \in Rows |-> FALSE]
    /\ currentlyPlaying = Null

\* The calls of function fn in the call log of the last handler.
CallsOf(fn) == {calls[i][2] : i \in {j \in 1..Len(calls) : calls[j][1] = fn}}

\* C13 as stated: a row without preview URL never calls unregister.
\* (Violated: the cleanup calls unregister(track.id) for every row.)
C13_NoPreviewNeverReleases ==
    \A r \in CallsOf("unregister") : HasPreview(r)

\* C13 amended: a row without preview URL never calls register, and the
\* unregister(track.id) of its cleanup is a no-op in every reachable state:
\* the registered id is never the id of a record without preview.
C13_NoPreviewReleaseIsNoOp ==
    \A r \in Rows : ~HasPreview(r) =>
        /\ r \notin CallsOf("register")
        /\ unregister(RowId(r), currentlyPlaying) = currentlyPlaying

\* C13 witness: the cleanup of a row without preview called unregister in a
\* commit that began with a registration.
C13_NoPreviewReleaseSeen ==
    \E r \in Rows :
        /\ ~HasPreview(r)
        /\ r \in CallsOf("unregister")
        /\ ev.prev # Null

\* C14: after register the slot holds the pair of that call, whatever was
\* registered before.
C14_LastAcquireWins ==
    ev.op = "play" => currentlyPlaying = RowEntry(ev.row)

\* C14 witness: the last register carried the registered id with another
\* element, and the slot holds the new element.
C14_SameIdOtherHandleWins ==
    /\ ev.op = "play"
    /\ ev.prev.id = RowId(ev.row)
    /\ ev.prev.element # ev.row
    /\ currentlyPlaying.element = ev.row
    /\ currentlyPlaying.id = ev.prev.id

\* The position of the first call <<fn, r>> in the call log (0: no such call).
CallIndex(fn, r) ==
    LET I == {i \in 1..Len(calls) : calls[i] = <<fn, r>>}
    IN  IF I = {} THEN 0 ELSE CHOOSE i \in I : \A j \in I : i <= j

\* C15: on the Idle -> Playing transition register is called before the
\* row's own element is started.
\* (Violated: togglePlay calls audioRef.current.play() and then register.)
C15_AcquireBeforeStart ==
    ev.op = "play" => CallIndex("register", ev.row) < CallIndex("play", ev.row)

\* C16: every track record search() produced carries the preview URL of its
\* catalog item when the item has one, and none only when the item has none.
\* (Violated: the records of search() have no previewUrl property.)
C16_SearchCarriesPreview ==
    \A rec \in hist.results :
        LET item == CatalogItem(rec.id)
        IN  IF Truthy(item.preview_url)
            THEN rec.previewUrl = item.preview_url
            ELSE ~Truthy(rec.previewUrl)

HeldValid ==
    \/ isAuthenticated(auth, now)
    \/ /\ auth.store.token # NoToken
       /\ NumberOf(auth.store.expirationTime) > now

\* C18: isAuthenticated() is true exactly when an unexpired token is held,
\* in memory or in sessionStorage.
\* (Violated: isAuthenticated reads the fields of the object only; after a
\* reload the token is in sessionStorage and the fields are null.)
C18_AuthenticatedIffTokenHeld ==
    auth.page = "app" => (isAuthenticated(auth, now) <=> HeldValid)

\* C19: a token answered with 401 is cleared from memory and sessionStorage
\* (and is not in the URL), and no request in flight carries it.
C19_RejectedTokenNeverResent ==
    /\ req.st = "sent" => req.token \notin hist.rejected
    /\ \A k \in hist.rejected :
          /\ auth.mem.accessToken # k
          /\ auth.store.token # k
          /\ auth.url.token # k

\* C19 witness: after a 401 a later request is in flight, with another token.
C19_RequestAfterRejection ==
    /\ hist.rejected # {}
    /\ req.st = "sent"
    /\ req.token \notin hist.rejected

\* C20: a fetchFromSpotify call sends at most one request (after a 401 the
\* retry finds no token and rejects), and once the request is answered the
\* call is settled.
C20_FetchSettles ==
    /\ [](req.n <= 1)
    /\ (req.st = "sent") ~> (req.st # "sent")

\* C20 witness: the request was answered with 401 and the retry rejected
\* without a second request.
C20_RetryRejected ==
    /\ req.st = "rejected"
    /\ req.n = 1
    /\ req.error = "No access token available"
    /\ hist.rejected # {}
    /\ auth.mem = NoMem

\* C21: whenever getAccessToken returns a token (called by the application or
\* by fetchFromSpotify), the token is unexpired by the module's own rule:
\* isAuthenticated() is true immediately afterwards, whatever expires_in was.
\* (Violated: an expires_in of at most 60 s gives an expirationTime that is
\* not later than Date.now(); the token is returned all the same.)
C21_ReturnedTokenUnexpired ==
    [][((GetAccessToken \/ \E kind \in {"search", "other"} : FetchFromSpotify(kind))
          /\ hist'.ret # NoToken)
       => isAuthenticated(auth', now')]_vars

\* C23: for an unexpired token held in the fields, saveTokenToStorage followed
\* by loadTokenFromStorage (sessionStorage working) returns true and leaves
\* accessToken, expiresIn and expirationTime exactly as they were saved.
\* (Violated: expiresIn is saved as String(expiresIn) and restored as the
\* string getItem returns, with no Number(): the number comes back a string.)
C23_SaveLoadRoundTrip ==
    (auth.storageOk /\ isAuthenticated(auth, now)) =>
        LET l == loadTokenFromStorage(saveTokenToStorage(auth), now)
        IN  l.ok /\ l.a.mem = auth.mem

\* C24: a commit cleans up (pauses and unregisters) only the rows it destroys:
\* every row the cleanup calls were made for is gone after the commit, and a
\* registration whose row stays mounted is intact.
\* (Violated: AudioProvider makes a new unregister on every render and the
\* effect depends on [track.id, unregister], so every commit of App re-runs
\* the cleanup of every row that stays mounted.)
C24_CleanupOnlyOnDestroy ==
    ev.op \in {"add", "remove", "rerender", "unmountAll"} =>
        /\ \A i \in DOMAIN calls : ~mounted[calls[i][2]]
        /\ (ev.prev # Null /\ mounted[ev.prev.element]) => currentlyPlaying = ev.prev

\* C25: when getAccessToken gives no token, fetchFromSpotify rejects with
\* 'No access token available' and sends no request: no request in flight is
\* without a token, and a call that got no token is rejected with that error.
C25_NoTokenNoRequest ==
    /\ req.st = "sent" => req.token # NoToken
    /\ (req.st # "idle" /\ req.token = NoToken) =>
          (req.st = "rejected" /\ req.error = "No access token available")

\* C25 witness: a call made with no token anywhere was rejected with no
\* request sent, getAccessToken having redirected to Spotify.
C25_RejectedWithoutRequest ==
    /\ req.st = "rejected"
    /\ req.error = "No access token available"
    /\ req.token = NoToken
    /\ req.n = 0
    /\ hist.from = "redirect"

\* C22: savePlaylist sends its requests in the order profile lookup, playlist
\* creation, track addition; a request is sent only after the one before it
\* was answered with a body; after a failed step no request is in flight and
\* the promise is rejected; the promise resolves only with no request needed
\* or all three answered.
C22_SaveInOrder ==
    LET log == save.log
    IN  /\ Len(log) <= 3
        /\ \A i \in DOMAIN log : log[i].kind = SaveOrder[i]
        /\ \A i \in DOMAIN log : i < Len(log) => log[i].outcome = "json"
        /\ (log # <<>> /\ thenNext(log[Len(log)].kind, log[Len(log)].outcome) = "reject")
              => (save.st = "rejected" /\ req.st # "sent")
        /\ save.st = "rejected" => req.st # "sent"
        /\ save.st = "pending" => (req.st = "sent" /\ log # <<>>
                                     /\ req.kind = log[Len(log)].kind
                                     /\ log[Len(log)].outcome = "pending")
        /\ save.st = "resolved" =>
              (log = <<>> \/ (Len(log) = 3 /\ log[3].outcome \in {"json", "null"}))

\* C22 witness: the profile lookup succeeded, the playlist creation failed,
\* the promise is rejected and the track addition was never sent.
C22_CreateFailedNoAdd ==
    /\ save.st = "rejected"
    /\ Len(save.log) = 2
    /\ save.log[1].outcome = "json"
    /\ save.log[2].outcome = "error"
    /\ req.st = "rejected"

====
